---- MODULE Spec2Model ----
(***************************************************************************)
(* Agent Coordination Layer of volta: the MCP server's agent registry,     *)
(* capability broker and client tools (mcp-server/src/index.ts), the agent *)
(* runtime and its helper functions (agents/src), and the monitor's        *)
(* get-agents handler and terminals (monitor/server.ts).  Time is in       *)
(* milliseconds, as in the code.                                           *)
(***************************************************************************)
EXTENDS Integers, Sequences, FiniteSets, TLC

\* ------------------------------------------------------------------ bounds
MaxTime == 150000
MaxMsgs == 2
MaxCalls == 2
MaxCapTime == 2000
MaxRunTime == 60000
MaxEvents == 2
MaxQueued == 1
MaxReqs == 2
MaxMonTime == 5000
MaxRetryCount == 12
MaxConns == 2
MaxToolCalls == 3
MaxSends == 2
MaxMsgTime == 1
MaxPtys == 3

\* --------------------------------------------------------- program constants
StalenessTimeout == 90000
SweepInterval == 60000
\* clock granularity of the model: half a sweep interval
TickMs == SweepInterval \div 2

AgentIds == {"agent-1", "agent-2"}
\* status values a message on agent.<id>.status can carry: the ones the MCP
\* client publishes (online, offline) and two of the Heartbeat type (its
\* third value, restarting, is handled exactly like these two)
StatusPayloads == {"online", "offline", "alive", "stopping"}
Filters == {"all", "online", "offline"}
NoValue == "undefined"
\* replies of the request handlers: JSON null, one agent's info, a list
NoReply == [kind |-> "none"]
NullReply == [kind |-> "null"]
\* nothing heard yet from an id
NoHeard == [at |-> -1, status |-> NoValue]

VARIABLES
  mcp,         \* the MCP server process: "starting", "running" or "exited"
  agents,      \* registry roster: the Map<string, Agent>, in insertion order
  now,         \* Date.now() of the registry process
  nextSweep,   \* time at which the setInterval sweep fires next
  getLoopAlive,\* the for-await loop of the mcp.get_agent_info subscription runs
  lastOp,      \* the handler that ran last, with its input
  lastReply,   \* what that handler answered to its caller
  heard,       \* per id: the last announce/status message handled for a
               \* registered agent (when, with which status)
  lastSweepAt  \* time of the last sweep, -1 before the first

regVars == <<mcp, agents, now, nextSweep, getLoopAlive, lastOp, lastReply,
             heard, lastSweepAt>>

VARIABLES
  running,     \* per agent: setupSubscriptions has run (subscribed to tasks.*)
  published,   \* the task messages published so far, with their receivers
  inbox,       \* per agent: numbers of the messages delivered to its taskSub
  pos,         \* per agent: how many inbox messages its task loop has finished
  pc,          \* per agent: task loop is "idle" or "processing" a message
  results,     \* the TaskResults published on task.result, in order
  stats,       \* per agent: the ProcessingStats counters
  raised       \* per agent: numbers of the messages whose execution raised

taskVars == <<running, published, inbox, pos, pc, results, stats, raised>>

VARIABLES
  capSubs,     \* agents subscribed to capability.request
  capInbox,    \* per agent: the capability requests delivered to it
  calls,       \* per MCP client: its request_capability call
  nCalls       \* number of request_capability calls made so far

capVars == <<capSubs, capInbox, calls, nCalls>>

\* one agent runtime process (agents/src/index.ts); its clock is now
VARIABLES
  phase,       \* "starting", "connecting", "setup" (connected),
               \* "announced" or "unannounced" (initializeMCPClient done),
               \* "running", "stopping" (shutdown() entered), "draining"
               \* (nc.drain() pending) or "terminated"
  retries,     \* connectToNATS: the retries counter
  attempts,    \* number of connect() calls made so far
  waits,       \* the delays connectToNATS has slept, in order
  exited,      \* process.exit: its code and what led to it
  hbNext,      \* time the heartbeat setInterval fires next, -1 without timer
  beats,       \* heartbeats published on agent.<id>.heartbeat, in order
  events,      \* types of the messages delivered on agent.<id>.events
  evPos,       \* how many of them the event loop has handled
  bcasts,      \* types of the messages delivered on broadcast
  bcPos,       \* how many of them the broadcast loop has handled
  handling,    \* the task loop is inside processTask (suspended at an await)
  queued,      \* task messages waiting in taskSub
  steps        \* the termination steps the process has performed, in order

rtVars == <<phase, retries, attempts, waits, exited, hbNext, beats, events,
            evPos, bcasts, bcPos, handling, queued, steps>>
\* the monitor server (monitor/server.ts); its clock is now
VARIABLES
  monNats,     \* MonitorServer.natsConnection: "init" before initialize()
               \* has run, then "connected" or "none" (left null)
  monReqs,     \* the get-agents events received, in order, with their state
  emitted      \* the agents-list emissions made, in order

monVars == <<monNats, monReqs, emitted>>
\* the helper functions of agents/src/utils.ts, applied to one argument
VARIABLES
  fnTask,      \* the value isValidTask is called with
  fnValid,     \* what isValidTask returned for it (done is FALSE before)
  fnRetry,     \* the retryCount calculateBackoffDelay is called with
  fnDelay      \* what calculateBackoffDelay returned for it, -1 before

fnVars == <<fnTask, fnValid, fnRetry, fnDelay>>
\* the MCP server's WebSocket clients and their tools; its clock is now
VARIABLES
  conns,       \* the WebSocket connections accepted so far, in order: the
               \* clientId each was given and whether it is still open
  servers,     \* keys of the servers map (clientId -> MCP Server)
  messageSubscriptions, \* the Map<string, Subscription>: subKey -> sub
  busSubs,     \* the subscriptions open on the NATS connection that were
               \* created by subscribe_to_agent
  nextSid,     \* number of subscriptions created so far
  toolLog,     \* the subscribe/unsubscribe calls handled, with their answers
  sendLog,     \* the send_message calls handled, in order
  outbox       \* the envelopes send_message has published, in order

msgVars == <<conns, servers, messageSubscriptions, busSubs, nextSid, toolLog,
             sendLog, outbox>>
\* the monitor's terminals
VARIABLES
  ptys,        \* the Map<string, IPty>: terminalKey -> PTY
  procs,       \* the PTYs spawned so far, in order: the key each was
               \* created for and whether its process is "alive", "killed"
               \* (kill() called, exit not yet reported) or "exited"
  gone         \* sockets that have disconnected

termVars == <<ptys, procs, gone>>
vars == <<regVars, taskVars, capVars, rtVars, monVars, fnVars, msgVars,
          termVars>>
RegFrame == UNCHANGED <<taskVars, capVars, rtVars, monVars, fnVars, msgVars, termVars>>
TaskFrame == UNCHANGED <<regVars, capVars, rtVars, monVars, fnVars, msgVars, termVars>>
CapFrame == UNCHANGED <<mcp, agents, nextSweep, getLoopAlive, lastOp, lastReply,
                        heard, lastSweepAt, taskVars, rtVars, monVars, fnVars, msgVars, termVars>>
RtFrame == UNCHANGED <<mcp, agents, nextSweep, getLoopAlive, lastOp, lastReply,
                       heard, lastSweepAt, taskVars, capVars, monVars, fnVars, msgVars, termVars>>
MonFrame == UNCHANGED <<mcp, agents, nextSweep, getLoopAlive, lastOp, lastReply,
                        heard, lastSweepAt, taskVars, capVars, rtVars, fnVars, msgVars, termVars>>
FnFrame == UNCHANGED <<regVars, taskVars, capVars, rtVars, monVars, msgVars, termVars>>
MsgFrame == UNCHANGED <<mcp, nextSweep, getLoopAlive, lastOp, lastReply,
                        heard, lastSweepAt, taskVars, capVars, rtVars, monVars,
                        fnVars, termVars>>
TermFrame == UNCHANGED <<regVars, taskVars, capVars, rtVars, monVars, fnVars,
                         msgVars>>

\* ------------------------------------------------------------ Map helpers
MapHas(m, k) == \E i \in 1..Len(m) : m[i].id = k
MapIndex(m, k) == CHOOSE i \in 1..Len(m) : m[i].id = k
MapGet(m, k) == IF MapHas(m, k) THEN m[MapIndex(m, k)] ELSE NoValue
\* variant that never looks the key up
MapSetAppend(m, k, v) == Append(m, v)
MapSet(m, k, v) ==
  IF MapHas(m, k) THEN [m EXCEPT ![MapIndex(m, k)] = v] ELSE Append(m, v)

\* ------------------------------------------------------------ subjects
\* a NATS subject is a sequence of tokens; in a subscription "*" stands
\* for exactly one token
RECURSIVE subjectMatches(_, _)
subjectMatches(pattern, subject) ==
  IF pattern = <<>> \/ subject = <<>>
    THEN pattern = <<>> /\ subject = <<>>
    ELSE /\ Head(pattern) \in {"*", Head(subject)}
         /\ subjectMatches(Tail(pattern), Tail(subject))
\* the registry's status subscription
StatusPattern == <<"agent", "*", "status">>
\* the subject an agent runtime publishes its heartbeat on
heartbeatSubject(id) == <<"agent", id, "heartbeat">>
\* the subject the MCP client publishes its status on
statusSubject(id) == <<"agent", id, "status">>

\* announce payloads: what the MCP client sends (name and capabilities set),
\* and for agent-1 also a bare {id}
AnnounceData(id) ==
  { [id |-> id, name |-> id, capabilities |-> <<"text-processing">>] }
  \cup (IF id = "agent-1" THEN { [id |-> id] } ELSE {})

\* ------------------------------------------------------------- registry
\* variant that registers an agent as offline until its first heartbeat
registerAgentOffline(m, agentData, t) ==
  MapSet(m, agentData.id,
         [id |-> agentData.id,
          name |-> IF "name" \in DOMAIN agentData
                     THEN agentData.name ELSE "agent-" \o agentData.id,
          lastSeen |-> t,
          status |-> "offline",
          capabilities |-> IF "capabilities" \in DOMAIN agentData
                             THEN agentData.capabilities ELSE <<>>])
registerAgent(m, agentData, t) ==
  MapSet(m, agentData.id,
         [id |-> agentData.id,
          name |-> IF "name" \in DOMAIN agentData
                     THEN agentData.name ELSE "agent-" \o agentData.id,
          lastSeen |-> t,
          status |-> "online",
          capabilities |-> IF "capabilities" \in DOMAIN agentData
                             THEN agentData.capabilities ELSE <<>>])

\* variant that forgets an agent reported offline
updateAgentStatusDrop(m, agentId, status, t) ==
  IF status = "offline"
    THEN SelectSeq(m, LAMBDA a : a.id # agentId)
    ELSE IF MapHas(m, agentId)
      THEN [m EXCEPT ![MapIndex(m, agentId)].status = status,
                     ![MapIndex(m, agentId)].lastSeen = t]
      ELSE m
\* variant that ignores the payload's status
updateAgentStatusOnline(m, agentId, status, t) ==
  IF MapHas(m, agentId)
    THEN [m EXCEPT ![MapIndex(m, agentId)].status = "online",
                   ![MapIndex(m, agentId)].lastSeen = t]
    ELSE m
updateAgentStatus(m, agentId, status, t) ==
  IF MapHas(m, agentId)
    THEN [m EXCEPT ![MapIndex(m, agentId)].status = status,
                   ![MapIndex(m, agentId)].lastSeen = t]
    ELSE m

\* variant that gives up on an agent after one sweep interval
isStaleAfterOneInterval(agent, t) ==
  t - agent.lastSeen > SweepInterval /\ agent.status = "online"
\* the condition under which the sweep marks an agent offline
isStale(agent, t) ==
  t - agent.lastSeen > StalenessTimeout /\ agent.status = "online"

\* the body of the setInterval callback: one pass over the Map
RECURSIVE sweepFrom(_, _, _)
sweepFrom(m, i, t) ==
  IF i > Len(m) THEN m
  ELSE sweepFrom(
         IF isStale(m[i], t)
           THEN updateAgentStatus(m, m[i].id, "offline", t)
           ELSE m,
         i + 1, t)
\* variant that already marks an agent seen exactly one threshold ago
sweepInclusive(m, t) ==
  [i \in 1..Len(m) |->
     IF t - m[i].lastSeen >= StalenessTimeout /\ m[i].status = "online"
       THEN [m[i] EXCEPT !.status = "offline", !.lastSeen = t] ELSE m[i]]
sweep(m, t) == sweepFrom(m, 1, t)

agentInfo(a) ==
  [id |-> a.id, name |-> a.name, status |-> a.status,
   lastSeen |-> a.lastSeen, capabilities |-> a.capabilities]
\* variant that ignores the filter
listAgentsUnfiltered(m, status) ==
  [i \in 1..Len(m) |-> agentInfo(m[i])]
listAgents(m, status) ==
  LET keep == SelectSeq(m, LAMBDA a : status = "all" \/ a.status = status)
  IN [i \in 1..Len(keep) |-> agentInfo(keep[i])]
getAgentInfo(m, agentId, t) ==
  IF MapHas(m, agentId)
    THEN [kind |-> "info",
          id |-> MapGet(m, agentId).id, name |-> MapGet(m, agentId).name,
          status |-> MapGet(m, agentId).status,
          lastSeen |-> MapGet(m, agentId).lastSeen,
          capabilities |-> MapGet(m, agentId).capabilities,
          uptime |-> t - MapGet(m, agentId).lastSeen]
    ELSE [kind |-> "text", text |-> "Agent " \o agentId \o " not found"]
\* what the mcp.get_agent_info handler responds with
respondAgentInfo(m, agentId) ==
  IF MapHas(m, agentId)
    THEN [kind |-> "info",
          id |-> MapGet(m, agentId).id, name |-> MapGet(m, agentId).name,
          status |-> MapGet(m, agentId).status,
          lastSeen |-> MapGet(m, agentId).lastSeen,
          capabilities |-> MapGet(m, agentId).capabilities]
    ELSE NullReply

RegInit ==
  /\ mcp = "starting"
  /\ agents = <<>>
  /\ now = 0
  /\ nextSweep = SweepInterval
  /\ getLoopAlive = TRUE
  /\ lastOp = [kind |-> "start", id |-> NoValue, arg |-> NoValue]
  /\ lastReply = NoReply
  /\ heard = [id \in AgentIds |-> NoHeard]
  /\ lastSweepAt = -1

StatusOf(m, id) == IF MapHas(m, id) THEN MapGet(m, id).status ELSE NoValue

\* start(): connectToNats succeeds, the subscriptions and the sweep timer
\* are set up
ConnectToNats ==
  /\ mcp = "starting"
  /\ mcp' = "running"
  /\ nextSweep' = now + SweepInterval
  /\ lastOp' = [kind |-> "connect", id |-> NoValue, arg |-> NoValue]
  /\ lastReply' = NoReply
  /\ UNCHANGED <<agents, now, getLoopAlive, heard, lastSweepAt>>

\* start(): connect rejects; connectToNats logs and rethrows, start()
\* rejects and its catch handler calls process.exit(1)
ConnectFails ==
  /\ mcp = "starting"
  /\ mcp' = "exited"
  /\ lastOp' = [kind |-> "exit", id |-> NoValue, arg |-> "1"]
  /\ lastReply' = NoReply
  /\ UNCHANGED <<agents, now, nextSweep, getLoopAlive, heard, lastSweepAt>>

\* agent.announce subscription
Announce(id) ==
  \E d \in AnnounceData(id) :
    /\ mcp = "running"
    /\ agents' = registerAgent(agents, d, now)
    /\ lastOp' = [kind |-> "announce", id |-> id, arg |-> NoValue]
    /\ lastReply' = NoReply
    /\ heard' = [heard EXCEPT ![id] =
                   [at |-> now, status |-> "online"]]
    /\ UNCHANGED <<mcp, now, nextSweep, getLoopAlive, lastSweepAt>>

\* agent.*.status subscription
StatusMsg(id) ==
  \E s \in StatusPayloads :
    /\ mcp = "running"
    /\ subjectMatches(StatusPattern, statusSubject(id))
    /\ agents' = updateAgentStatus(agents, id, s, now)
    /\ lastOp' = [kind |-> "status", id |-> id, arg |-> s]
    /\ lastReply' = NoReply
    /\ heard' = IF MapHas(agents, id)
                  THEN [heard EXCEPT ![id] =
                          [at |-> now, status |-> s]]
                  ELSE heard
    /\ UNCHANGED <<mcp, now, nextSweep, getLoopAlive, lastSweepAt>>

\* an agent runtime's heartbeat timer publishes {agentId, status: alive}
\* on agent.<id>.heartbeat; the registry handles it only if one of its
\* subscriptions matches that subject
HeartbeatMsg(id) ==
  /\ mcp = "running"
  /\ agents' = IF subjectMatches(StatusPattern, heartbeatSubject(id))
                 THEN updateAgentStatus(agents, id, "alive", now)
                 ELSE agents
  /\ heard' = IF /\ subjectMatches(StatusPattern, heartbeatSubject(id))
                 /\ MapHas(agents, id)
                THEN [heard EXCEPT ![id] = [at |-> now, status |-> "alive"]]
                ELSE heard
  /\ lastOp' = [kind |-> "heartbeat", id |-> id, arg |-> "alive"]
  /\ lastReply' = NoReply
  /\ UNCHANGED <<mcp, now, nextSweep, getLoopAlive, lastSweepAt>>

\* the setInterval callback of startHeartbeatMonitoring
Sweep ==
  /\ mcp = "running"
  /\ now >= nextSweep
  /\ agents' = sweep(agents, now)
  /\ nextSweep' = nextSweep + SweepInterval
  /\ lastOp' = [kind |-> "sweep", id |-> NoValue, arg |-> NoValue]
  /\ lastReply' = NoReply
  /\ lastSweepAt' = now
  /\ UNCHANGED <<mcp, now, getLoopAlive, heard>>

\* time passes; a due timer callback runs before the clock moves on
Tick ==
  /\ mcp = "running"
  /\ now < nextSweep
  /\ now + TickMs <= MaxTime
  /\ now' = now + TickMs
  /\ lastOp' = [kind |-> "tick", id |-> NoValue, arg |-> NoValue]
  /\ lastReply' = NoReply
  /\ UNCHANGED <<mcp, agents, nextSweep, getLoopAlive, heard, lastSweepAt>>

\* list_agents tool and mcp.list_agents subject (same body)
ListAgents ==
  \E f \in Filters :
    /\ mcp = "running"
    /\ lastOp' = [kind |-> "list", id |-> NoValue, arg |-> f]
    /\ lastReply' = [kind |-> "list", list |-> listAgents(agents, f)]
    /\ UNCHANGED <<mcp, agents, now, nextSweep, getLoopAlive, heard, lastSweepAt>>

\* get_agent_info tool
HandleGetAgentInfo(id) ==
  /\ mcp = "running"
  /\ lastOp' = [kind |-> "get", id |-> id, arg |-> "tool"]
  /\ lastReply' = getAgentInfo(agents, id, now)
  /\ UNCHANGED <<mcp, agents, now, nextSweep, getLoopAlive, heard, lastSweepAt>>

\* a request on the mcp.get_agent_info subject: the handler returns out of
\* its for-await loop after answering null for an unknown id, and a
\* request that arrives after that gets no answer
NatsGetAgentInfo(id) ==
  /\ mcp = "running"
  /\ lastOp' = [kind |-> "get", id |-> id, arg |-> "nats"]
  /\ lastReply' = IF getLoopAlive THEN respondAgentInfo(agents, id)
                                  ELSE NoReply
  /\ getLoopAlive' = (getLoopAlive /\ MapHas(agents, id))
  /\ UNCHANGED <<mcp, agents, now, nextSweep, heard, lastSweepAt>>


\* ------------------------------------------------------ agent task loop
\* JSON values carry their typeof; a field that is absent is undefined
Str(v) == [typeof |-> "string", v |-> v]
Num(v) == [typeof |-> "number", v |-> v]
Garbage == [garbage |-> TRUE]
JsonNull == [null |-> TRUE]
WellFormedTasks ==
  { [id |-> Str("t1"), type |-> Str("echo"), data |-> Str("hi")],
    [id |-> Str("t2"), type |-> Str("claude"), data |-> Str("hi")] }
MalformedMessages ==
  { [type |-> Str("echo"), data |-> Str("hi")],
    [id |-> Str("t1"), data |-> Str("hi")],
    [id |-> Str("t1"), type |-> Str("echo")],
    [id |-> Num("7"), type |-> Str("echo"), data |-> Str("hi")],
    JsonNull, Garbage }
TaskMessages == WellFormedTasks \cup MalformedMessages

\* agent-1 runs with an API key, agent-2 without
claudeService == [a \in AgentIds |-> a = "agent-1"]

\* the typeof operator: null, objects and arrays are "object"
typeOf(x) == IF "typeof" \in DOMAIN x THEN x.typeof ELSE "object"

\* variant that does not look at data
isValidTaskNoData(obj) ==
  /\ obj # JsonNull
  /\ typeOf(obj) = "object"
  /\ "id" \in DOMAIN obj /\ typeOf(obj.id) = "string"
  /\ "type" \in DOMAIN obj /\ typeOf(obj.type) = "string"
isValidTask(obj) ==
  /\ obj # JsonNull
  /\ typeOf(obj) = "object"
  /\ "id" \in DOMAIN obj /\ typeOf(obj.id) = "string"
  /\ "type" \in DOMAIN obj /\ typeOf(obj.type) = "string"
  /\ "data" \in DOMAIN obj

usesClaude(a, task) ==
  claudeService[a] /\ task.type.v \in {"claude", "ai"}

\* what processTask does with one message: it returns a TaskResult, or
\* lets an exception escape to the caller (threw)
completedResult(a, task, claudeOk) ==
  [agentId |-> a, taskId |-> task.id.v, status |-> "completed",
   result |-> IF usesClaude(a, task)
                THEN (IF claudeOk THEN "claude-text" ELSE "fallback")
                ELSE "processed",
   error |-> NoValue]
failedResult(a, message) ==
  [agentId |-> a, taskId |-> "unknown", status |-> "failed",
   result |-> "Task processing failed", error |-> message]

\* variant whose catch block rethrows (as the JavaScript agent does)
processTaskRethrow(a, data, claudeOk, writeOk) ==
  IF data = Garbage \/ ~isValidTask(data) \/ ~writeOk
    THEN [threw |-> TRUE]
    ELSE [threw |-> FALSE, result |-> completedResult(a, data, claudeOk)]
\* variant whose catch block leaves the error message out
processTaskNoError(a, data, claudeOk, writeOk) ==
  IF data = Garbage \/ ~isValidTask(data) \/ ~writeOk
    THEN [threw |-> FALSE,
          result |-> [failedResult(a, "x") EXCEPT !.error = NoValue]]
    ELSE [threw |-> FALSE, result |-> completedResult(a, data, claudeOk)]
processTask(a, data, claudeOk, writeOk) ==
  IF data = Garbage
    THEN [threw |-> FALSE, result |-> failedResult(a, "Unexpected token")]
  ELSE IF ~isValidTask(data)
    THEN [threw |-> FALSE, result |-> failedResult(a, "Invalid task structure")]
  ELSE IF ~writeOk
    THEN [threw |-> FALSE, result |-> failedResult(a, "EACCES")]
  ELSE [threw |-> FALSE, result |-> completedResult(a, data, claudeOk)]

\* a TaskResult on task.result, tagged with the number of the message it
\* answers (the tag is bookkeeping of the model, not a field of the payload)
OnBus(r, no) ==
  [agentId |-> r.agentId, taskId |-> r.taskId, status |-> r.status,
   result |-> r.result, error |-> r.error, re |-> no]

\* variant that counts completed tasks only
updateStatsCompletedOnly(st, status) ==
  IF status = "completed"
    THEN [st EXCEPT !.tasksProcessed = @ + 1, !.tasksSucceeded = @ + 1]
    ELSE st
\* the statistics update of processTask: at the end of the try block for
\* a completed task, in the catch block for a failed one
updateStats(st, status) ==
  IF status = "completed"
    THEN [st EXCEPT !.tasksProcessed = @ + 1, !.tasksSucceeded = @ + 1]
    ELSE [st EXCEPT !.tasksProcessed = @ + 1, !.tasksFailed = @ + 1]

TaskInitVars ==
  /\ running = [a \in AgentIds |-> FALSE]
  /\ published = <<>>
  /\ inbox = [a \in AgentIds |-> <<>>]
  /\ pos = [a \in AgentIds |-> 0]
  /\ pc = [a \in AgentIds |-> "idle"]
  /\ results = <<>>
  /\ stats = [a \in AgentIds |->
                [tasksProcessed |-> 0, tasksSucceeded |-> 0, tasksFailed |-> 0]]
  /\ raised = [a \in AgentIds |-> {}]

\* setupSubscriptions: the agent subscribes to tasks.*
AgentStart(a) ==
  /\ ~running[a]
  /\ running' = [running EXCEPT ![a] = TRUE]
  /\ UNCHANGED <<published, inbox, pos, pc, results, stats, raised>>

\* a producer publishes on tasks.<type>: every current subscriber gets it
PublishTask(m) ==
  /\ Len(published) < MaxMsgs
  /\ published' = Append(published,
                         [msg |-> m, to |-> {a \in AgentIds : running[a]}])
  /\ inbox' = [a \in AgentIds |->
                 IF running[a] THEN Append(inbox[a], Len(published) + 1)
                               ELSE inbox[a]]
  /\ UNCHANGED <<running, pos, pc, results, stats, raised>>

\* variant that takes the next message without waiting for processTask,
\* whose result is then lost
TaskBeginOverlapping(a) ==
  /\ running[a]
  /\ pos[a] + (IF pc[a] = "processing" THEN 1 ELSE 0) < Len(inbox[a])
  /\ pc' = [pc EXCEPT ![a] = "processing"]
  /\ pos' = [pos EXCEPT ![a] = IF pc[a] = "processing" THEN @ + 1 ELSE @]
  /\ UNCHANGED <<running, published, inbox, results, stats, raised>>
\* the task loop takes the next message and calls processTask
TaskBegin(a) ==
  /\ running[a]
  /\ pc[a] = "idle"
  /\ pos[a] < Len(inbox[a])
  /\ pc' = [pc EXCEPT ![a] = "processing"]
  /\ UNCHANGED <<running, published, inbox, pos, results, stats, raised>>

\* processTask settles and the loop publishes what it returned
TaskFinish(a) ==
  /\ pc[a] = "processing"
  /\ \E claudeOk \in BOOLEAN, writeOk \in BOOLEAN :
       LET no == inbox[a][pos[a] + 1]
           data == published[no].msg
           out == processTask(a, data, claudeOk, writeOk)
       IN /\ results' = IF out.threw THEN results
                        ELSE Append(results, OnBus(out.result, no))
          /\ stats' = IF out.threw THEN stats
                      ELSE [stats EXCEPT
                              ![a] = updateStats(@, out.result.status)]
          /\ raised' = IF data # Garbage /\ isValidTask(data) /\ ~writeOk
                         THEN [raised EXCEPT ![a] = @ \cup {no}]
                         ELSE raised
  /\ pos' = [pos EXCEPT ![a] = @ + 1]
  /\ pc' = [pc EXCEPT ![a] = "idle"]
  /\ UNCHANGED <<running, published, inbox>>

\* ---------------------------------------------------- capability broker
Clients == {"c1", "c2"}
Capabilities == {"text-processing", "nonexistent"}
\* the timeout argument of request_capability: absent, or a number
TimeoutArgs == {NoValue, "1000"}
DefaultTimeout == 30000
\* clock granularity of the broker model
CapTickMs == DefaultTimeout \div 30
timeoutOf(arg) ==
  IF arg = NoValue THEN DefaultTimeout ELSE 1000

IdleCall == [pc |-> "idle"]

\* what handleRequestCapability does once natsConnection.request has
\* settled: with a reply, or rejected with an error code
handleRequestCapability(capability, settled) ==
  IF settled.kind = "reply"
    THEN [kind |-> "content", text |-> settled.data]
    ELSE IF settled.code = "503"
      THEN [kind |-> "content",
            text |-> "No agent available with capability: " \o capability]
      ELSE [kind |-> "throw", error |-> settled.code]

Settle(c, settled) ==
  LET out == handleRequestCapability(calls[c].capability, settled)
  IN calls' = [calls EXCEPT
                 ![c].pc = IF out.kind = "throw" THEN "thrown" ELSE "returned",
                 ![c].settled = settled.kind,
                 ![c].out = out,
                 ![c].doneAt = now]

CapInitVars ==
  /\ capSubs = {}
  /\ capInbox = [a \in AgentIds |-> <<>>]
  /\ calls = [c \in Clients |-> IdleCall]
  /\ nCalls = 0

\* an agent subscribes to capability.request
CapSubscribe(a) ==
  /\ a \notin capSubs
  /\ capSubs' = capSubs \cup {a}
  /\ UNCHANGED <<capInbox, calls, nCalls, now>>

\* some registered agent advertises the capability
Advertised(m, capability) ==
  \E i \in 1..Len(m) :
    \E k \in 1..Len(m[i].capabilities) : m[i].capabilities[k] = capability

\* variant that consults the registry first and publishes only when a
\* registered agent advertises the capability
RequestCapabilityFiltered(c) ==
  /\ mcp = "running"
  /\ calls[c].pc = "idle"
  /\ nCalls < MaxCalls
  /\ \E capability \in Capabilities, timeoutArg \in TimeoutArgs :
       /\ calls' = [calls EXCEPT ![c] =
                      [pc |-> IF Advertised(agents, capability)
                                THEN "waiting" ELSE "returned",
                       no |-> nCalls + 1,
                       capability |-> capability,
                       timeout |-> timeoutOf(timeoutArg),
                       requestId |-> now, sentAt |-> now,
                       responders |-> capSubs, roster |-> agents,
                       settled |-> NoValue,
                       out |-> IF Advertised(agents, capability)
                                 THEN [kind |-> "none"]
                                 ELSE [kind |-> "content",
                                       text |-> "No agent available with capability: "
                                                \o capability],
                       doneAt |-> -1, late |-> 0]]
       /\ capInbox' = [a \in AgentIds |->
                         IF a \in capSubs /\ Advertised(agents, capability)
                           THEN Append(capInbox[a],
                                       [no |-> nCalls + 1, client |-> c,
                                        capability |-> capability])
                           ELSE capInbox[a]]
  /\ nCalls' = nCalls + 1
  /\ UNCHANGED <<capSubs, now>>
\* request_capability: build the request and publish it with a reply inbox
\* (responders and roster record who is subscribed and what the registry
\* holds at that moment; they are bookkeeping, not fields of the request)
RequestCapability(c) ==
  /\ mcp = "running"
  /\ calls[c].pc = "idle"
  /\ nCalls < MaxCalls
  /\ \E capability \in Capabilities, timeoutArg \in TimeoutArgs :
       /\ calls' = [calls EXCEPT ![c] =
                      [pc |-> "waiting", no |-> nCalls + 1,
                       capability |-> capability,
                       timeout |-> timeoutOf(timeoutArg),
                       requestId |-> now, sentAt |-> now,
                       responders |-> capSubs, roster |-> agents,
                       settled |-> NoValue, out |-> [kind |-> "none"],
                       doneAt |-> -1, late |-> 0]]
       /\ capInbox' = [a \in AgentIds |->
                         IF a \in capSubs
                           THEN Append(capInbox[a],
                                       [no |-> nCalls + 1, client |-> c,
                                        capability |-> capability])
                           ELSE capInbox[a]]
  /\ nCalls' = nCalls + 1
  /\ UNCHANGED <<capSubs, now>>

\* nobody is subscribed: the bus answers "no responders" (code 503)
NoResponders(c) ==
  /\ calls[c].pc = "waiting"
  /\ calls[c].responders = {}
  /\ Settle(c, [kind |-> "error", code |-> "503"])
  /\ UNCHANGED <<capSubs, capInbox, nCalls, now>>

\* the call an agent's request belongs to is still the client's current one
SameCall(req) ==
  calls[req.client].pc # "idle" /\ calls[req.client].no = req.no

\* variant in which every reply settles the call again
AgentRepliesLast(a) ==
  /\ capInbox[a] # <<>>
  /\ LET req == Head(capInbox[a])
     IN IF SameCall(req)
          THEN Settle(req.client, [kind |-> "reply", data |-> a])
          ELSE UNCHANGED calls
  /\ capInbox' = [capInbox EXCEPT ![a] = Tail(@)]
  /\ UNCHANGED <<capSubs, nCalls, now>>
\* an agent answers the oldest request it holds; the reply settles the
\* pending request() promise if the call is still waiting, and a reply
\* that arrives after the promise has settled is dropped (late counts
\* them; it is bookkeeping, not program state)
AgentReplies(a) ==
  /\ capInbox[a] # <<>>
  /\ LET req == Head(capInbox[a])
     IN IF SameCall(req) /\ calls[req.client].pc = "waiting"
          THEN Settle(req.client, [kind |-> "reply", data |-> a])
          ELSE IF SameCall(req)
            THEN calls' = [calls EXCEPT ![req.client].late = @ + 1]
            ELSE UNCHANGED calls
  /\ capInbox' = [capInbox EXCEPT ![a] = Tail(@)]
  /\ UNCHANGED <<capSubs, nCalls, now>>

\* an agent takes a request and does not answer it
AgentIgnores(a) ==
  /\ capInbox[a] # <<>>
  /\ capInbox' = [capInbox EXCEPT ![a] = Tail(@)]
  /\ UNCHANGED <<capSubs, calls, nCalls, now>>

\* the request's timer fires: the request is rejected with code TIMEOUT
RequestTimeout(c) ==
  /\ calls[c].pc = "waiting"
  /\ calls[c].responders # {}
  /\ now - calls[c].sentAt >= calls[c].timeout
  /\ Settle(c, [kind |-> "error", code |-> "TIMEOUT"])
  /\ UNCHANGED <<capSubs, capInbox, nCalls, now>>

\* the MCP client has its answer (a result or an error) and may call again
CallDone(c) ==
  /\ calls[c].pc \in {"returned", "thrown"}
  /\ calls' = [calls EXCEPT ![c] = IdleCall]
  /\ UNCHANGED <<capSubs, capInbox, nCalls, now>>

\* time passes; due timers and the bus's no-responders answer come first
CapTick ==
  /\ now + CapTickMs <= MaxCapTime
  /\ \A c \in Clients :
       calls[c].pc = "waiting" =>
         /\ calls[c].responders # {}
         /\ now - calls[c].sentAt < calls[c].timeout
  /\ now' = now + CapTickMs
  /\ UNCHANGED <<capSubs, capInbox, calls, nCalls>>

\* -------------------------------------------------- agent runtime process
maxRetries == 10
heartbeatInterval == 30000
baseDelay == 1000
maxDelay == 30000
\* clock granularity of the runtime model: half a heartbeat interval
RtTickMs == heartbeatInterval \div 2
\* event and broadcast types with a case of their own in the switch; every
\* other type (config_update, an unknown one) is only logged, like
\* status_request and announcement
EventTypes == {"status_request", "restart"}
BroadcastTypes == {"announcement", "shutdown"}
NotExited == [code |-> -1, cause |-> "none"]
\* phases in which the subscriptions and their loops exist
Live == {"running", "stopping", "draining"}

\* variant without the upper limit
calculateBackoffDelayUncapped(retryCount) ==
  baseDelay * 2 ^ retryCount
calculateBackoffDelay(retryCount) ==
  LET d == baseDelay * 2 ^ retryCount
  IN IF d < maxDelay THEN d ELSE maxDelay

\* variant with one more round
connectLoopInclusive(r) == r <= maxRetries
\* the while condition of connectToNATS
connectLoopContinues(r) == r < maxRetries

\* variant in which the timer callback waits for the task handler
heartbeatDueWhenIdle == hbNext # -1 /\ now >= hbNext /\ ~handling
\* the heartbeat setInterval has a callback due
heartbeatDue == hbNext # -1 /\ now >= hbNext

RtInitVars ==
  /\ phase = "starting"
  /\ retries = 0
  /\ attempts = 0
  /\ waits = <<>>
  /\ exited = NotExited
  /\ hbNext = -1
  /\ beats = <<>>
  /\ events = <<>>
  /\ evPos = 0
  /\ bcasts = <<>>
  /\ bcPos = 0
  /\ handling = FALSE
  /\ queued = 0
  /\ steps = <<>>

\* process.exit(code): nothing of the process runs afterwards
processExit(code, cause) ==
  /\ phase' = "terminated"
  /\ exited' = [code |-> code, cause |-> cause]
  /\ steps' = Append(steps, "exit")

\* main before the connection: ensureAgentDirs and initializeClaude; a
\* failing mkdir rejects main, whose catch handler exits with 1
StartMain ==
  /\ phase = "starting"
  /\ \E dirsOk \in BOOLEAN :
       IF dirsOk
         THEN phase' = "connecting" /\ UNCHANGED <<exited, steps>>
         ELSE processExit(1, "startup")
  /\ UNCHANGED <<now, retries, attempts, waits, hbNext, beats, events, evPos,
                 bcasts, bcPos, handling, queued>>

\* connectToNATS: one round of the while loop
ConnectAttempt ==
  /\ phase = "connecting"
  /\ connectLoopContinues(retries)
  /\ attempts' = attempts + 1
  /\ \E connected \in BOOLEAN :
       IF connected
         THEN /\ phase' = "setup"
              /\ UNCHANGED <<retries, waits>>
         ELSE /\ retries' = retries + 1
              /\ waits' = IF retries + 1 < maxRetries
                            THEN Append(waits, calculateBackoffDelay(retries + 1))
                            ELSE waits
              /\ UNCHANGED phase
  /\ UNCHANGED <<now, exited, hbNext, beats, events, evPos, bcasts, bcPos,
                 handling, queued, steps>>

\* connectToNATS throws after the loop; main().catch logs and exits with 1
ConnectGiveUp ==
  /\ phase = "connecting"
  /\ ~connectLoopContinues(retries)
  /\ processExit(1, "connect")
  /\ UNCHANGED <<now, retries, attempts, waits, hbNext, beats, events, evPos,
                 bcasts, bcPos, handling, queued>>

\* main after the connection: initializeMCPClient.  mcpClient.initialize()
\* announces the agent; when it throws, the error is logged and the agent
\* continues without MCP client
InitializeMCPClient ==
  /\ phase = "setup"
  /\ \E initialized \in BOOLEAN :
       phase' = IF initialized THEN "announced" ELSE "unannounced"
  /\ UNCHANGED <<now, retries, attempts, waits, exited, hbNext, beats, events,
                 evPos, bcasts, bcPos, handling, queued, steps>>

\* main after initializeMCPClient: setupSubscriptions, startHeartbeat,
\* setupShutdownHandlers.  connectToNATS has returned: its loop state
\* (retries, and the attempts and waits noted for it) is gone
SetupSubscriptions ==
  /\ phase \in {"announced", "unannounced"}
  /\ phase' = "running"
  /\ hbNext' = now + heartbeatInterval
  /\ retries' = 0
  /\ attempts' = 0
  /\ waits' = <<>>
  /\ UNCHANGED <<now, exited, beats, events, evPos,
                 bcasts, bcPos, handling, queued, steps>>

\* the startHeartbeat timer callback; busy notes whether a task handler
\* was in progress (bookkeeping, not part of the payload)
HeartbeatTimer ==
  /\ phase \in Live
  /\ heartbeatDue
  /\ beats' = Append(beats, [status |-> "alive", at |-> now, busy |-> handling])
  /\ hbNext' = now + heartbeatInterval
  /\ UNCHANGED <<now, phase, retries, attempts, waits, exited, events, evPos,
                 bcasts, bcPos, handling, queued, steps>>

\* a task message arrives on tasks.*
TaskArrives ==
  /\ phase \in {"running", "stopping"}
  /\ queued < MaxQueued
  /\ queued' = queued + 1
  /\ UNCHANGED <<now, phase, retries, attempts, waits, exited, hbNext, beats,
                 events, evPos, bcasts, bcPos, handling, steps>>

\* the task loop takes a message and awaits processTask
TaskStarts ==
  /\ phase \in Live
  /\ ~handling
  /\ queued > 0
  /\ handling' = TRUE
  /\ queued' = queued - 1
  /\ UNCHANGED <<now, phase, retries, attempts, waits, exited, hbNext, beats,
                 events, evPos, bcasts, bcPos, steps>>

\* processTask settles
TaskSettles ==
  /\ phase \in Live
  /\ handling
  /\ handling' = FALSE
  /\ UNCHANGED <<now, phase, retries, attempts, waits, exited, hbNext, beats,
                 events, evPos, bcasts, bcPos, queued, steps>>

\* a message arrives on agent.<id>.events
EventArrives ==
  /\ phase \in {"running", "stopping"}
  /\ Len(events) < MaxEvents
  /\ \E type \in EventTypes : events' = Append(events, type)
  /\ UNCHANGED <<now, phase, retries, attempts, waits, exited, hbNext, beats,
                 evPos, bcasts, bcPos, handling, queued, steps>>

\* variant in which one loop serves tasks and events
HandleAgentEventAfterTask ==
  /\ phase \in Live
  /\ ~handling
  /\ evPos < Len(events)
  /\ evPos' = evPos + 1
  /\ IF events[evPos + 1] = "restart"
       THEN processExit(0, "restart")
       ELSE UNCHANGED <<phase, exited, steps>>
  /\ UNCHANGED <<now, retries, attempts, waits, hbNext, beats, events,
                 bcasts, bcPos, handling, queued>>
\* the event loop takes the next message: handleAgentEvent
HandleAgentEvent ==
  /\ phase \in Live
  /\ evPos < Len(events)
  /\ evPos' = evPos + 1
  /\ IF events[evPos + 1] = "restart"
       THEN processExit(0, "restart")
       ELSE UNCHANGED <<phase, exited, steps>>
  /\ UNCHANGED <<now, retries, attempts, waits, hbNext, beats, events,
                 bcasts, bcPos, handling, queued>>

\* a message arrives on broadcast
BroadcastArrives ==
  /\ phase \in {"running", "stopping"}
  /\ Len(bcasts) < MaxEvents
  /\ \E type \in BroadcastTypes : bcasts' = Append(bcasts, type)
  /\ UNCHANGED <<now, phase, retries, attempts, waits, exited, hbNext, beats,
                 events, evPos, bcPos, handling, queued, steps>>

\* the broadcast loop takes the next message: handleBroadcast
HandleBroadcast ==
  /\ phase \in Live
  /\ bcPos < Len(bcasts)
  /\ bcPos' = bcPos + 1
  /\ IF bcasts[bcPos + 1] = "shutdown"
       THEN processExit(0, "shutdown")
       ELSE UNCHANGED <<phase, exited, steps>>
  /\ UNCHANGED <<now, retries, attempts, waits, hbNext, beats, events, evPos,
                 bcasts, handling, queued>>

\* SIGTERM or SIGINT: shutdown(signal) starts and awaits its log line
Signal ==
  /\ phase = "running"
  /\ phase' = "stopping"
  /\ UNCHANGED <<now, retries, attempts, waits, exited, hbNext, beats, events,
                 evPos, bcasts, bcPos, handling, queued, steps>>

\* variant that leaves the heartbeat timer running
ShutdownHeartbeatKeepsTimer ==
  /\ phase = "stopping"
  /\ beats' = Append(beats, [status |-> "stopping", at |-> now,
                             busy |-> handling])
  /\ phase' = "draining"
  /\ steps' = steps \o <<"stopping-heartbeat", "clear-timer">>
  /\ UNCHANGED <<now, retries, attempts, waits, exited, events, evPos,
                 bcasts, bcPos, handling, queued, hbNext>>
\* shutdown: publish the final heartbeat, clearInterval, call nc.drain()
ShutdownHeartbeat ==
  /\ phase = "stopping"
  /\ beats' = Append(beats, [status |-> "stopping", at |-> now,
                             busy |-> handling])
  /\ hbNext' = -1
  /\ phase' = "draining"
  /\ steps' = steps \o <<"stopping-heartbeat", "clear-timer">>
  /\ UNCHANGED <<now, retries, attempts, waits, exited, events, evPos,
                 bcasts, bcPos, handling, queued>>

\* shutdown: nc.drain() has resolved, process.exit(0)
ShutdownExit ==
  /\ phase = "draining"
  /\ phase' = "terminated"
  /\ exited' = [code |-> 0, cause |-> "signal"]
  /\ steps' = steps \o <<"drain", "exit">>
  /\ UNCHANGED <<now, retries, attempts, waits, hbNext, beats, events, evPos,
                 bcasts, bcPos, handling, queued>>

\* time passes in the running process; a due timer callback runs first
RtTick ==
  /\ phase \in Live
  /\ ~heartbeatDue
  /\ now + RtTickMs <= MaxRunTime
  /\ now' = now + RtTickMs
  /\ UNCHANGED rtVars

\* ------------------------------------------------------------ monitor
Sockets == {"s1", "s2"}
MonitorTimeout == 5000

MonInitVars ==
  /\ monNats = "init"
  /\ monReqs = <<>>
  /\ emitted = <<>>

\* initialize(): connect to the bus; a failure is logged and the monitor
\* continues with natsConnection left null
MonInitialize ==
  /\ monNats = "init"
  /\ \E connected \in BOOLEAN :
       monNats' = IF connected THEN "connected" ELSE "none"
  /\ UNCHANGED <<now, monReqs, emitted>>

\* socket.on('get-agents'): with a connection the handler sends a request
\* on mcp.list_agents and awaits the reply; without one it does nothing
GetAgents(socket) ==
  /\ monNats # "init"
  /\ Len(monReqs) < MaxReqs
  /\ monReqs' = Append(monReqs,
                  [socket |-> socket, sentAt |-> now,
                   pc |-> IF monNats = "connected" THEN "waiting" ELSE "ignored"])
  /\ UNCHANGED <<now, monNats, emitted>>

\* what the handler emits once the request has settled: the decoded reply,
\* or [] from the catch block
agentsList(r, socket, outcome) ==
  IF outcome.kind = "reply"
    THEN <<[req |-> r, socket |-> socket, agents |-> outcome.list]>>
    ELSE <<[req |-> r, socket |-> socket, agents |-> <<>>]>>

MonSettle(r, outcome) ==
  /\ monReqs' = [monReqs EXCEPT ![r].pc = outcome.kind]
  /\ emitted' = emitted \o agentsList(r, monReqs[r].socket, outcome)

\* the registry's mcp.list_agents handler replies in time
MonAnswered(r) ==
  /\ monReqs[r].pc = "waiting"
  /\ mcp = "running"
  /\ now - monReqs[r].sentAt < MonitorTimeout
  /\ MonSettle(r, [kind |-> "reply", list |-> listAgents(agents, "all")])
  /\ UNCHANGED <<now, monNats>>

\* nobody is subscribed to mcp.list_agents: the request is rejected (503)
MonNoResponders(r) ==
  /\ monReqs[r].pc = "waiting"
  /\ mcp # "running"
  /\ MonSettle(r, [kind |-> "failed"])
  /\ UNCHANGED <<now, monNats>>

\* no reply within the timeout: the request is rejected (TIMEOUT)
MonTimeout(r) ==
  /\ monReqs[r].pc = "waiting"
  /\ mcp = "running"
  /\ now - monReqs[r].sentAt >= MonitorTimeout
  /\ MonSettle(r, [kind |-> "timeout"])
  /\ UNCHANGED <<now, monNats>>

\* time passes; due timeouts and the bus's no-responders answer come first
MonTick ==
  /\ monNats # "init"
  /\ now + MonitorTimeout <= MaxMonTime
  /\ \A r \in 1..Len(monReqs) :
       monReqs[r].pc = "waiting" =>
         mcp = "running" /\ now - monReqs[r].sentAt < MonitorTimeout
  /\ now' = now + MonitorTimeout
  /\ UNCHANGED monVars

\* ---------------------------------------------------- monitor terminals
Containers == {"agent-1", "nats"}
terminalKeyOf(socketId, containerName) == socketId \o "-" \o containerName
\* key.startsWith(`${socketId}-`), for the keys createTerminal builds
keyStartsWith(key, socketId) ==
  \E c \in Containers : key = terminalKeyOf(socketId, c)

TermInitVars ==
  /\ ptys = <<>>
  /\ procs = <<>>
  /\ gone = {}

\* existing.kill(): the process is signalled; its exit is reported later
kill(ps, n) ==
  [ps EXCEPT ![n].state = IF @ = "alive" THEN "killed" ELSE @]

\* the p.onExit callback registered by createTerminal for PTY n
onExit(m, key, n) == SelectSeq(m, LAMBDA e : e.id # key)

\* socket.on('create-terminal')
CreateTerminal(socket, containerName) ==
  /\ socket \notin gone
  /\ Len(procs) < MaxPtys
  /\ LET terminalKey == terminalKeyOf(socket, containerName)
         p == Len(procs) + 1
         killed == IF MapHas(ptys, terminalKey)
                     THEN kill(procs, MapGet(ptys, terminalKey).pty)
                     ELSE procs
     IN /\ procs' = Append(killed, [key |-> terminalKey, state |-> "alive"])
        /\ ptys' = MapSet(SelectSeq(ptys, LAMBDA e : e.id # terminalKey),
                          terminalKey, [id |-> terminalKey, pty |-> p])
  /\ UNCHANGED gone

\* the process of PTY n exits (by itself, or after kill()) and the onExit
\* callback runs
PtyExit(n) ==
  /\ procs[n].state \in {"alive", "killed"}
  /\ procs' = [procs EXCEPT ![n].state = "exited"]
  /\ ptys' = onExit(ptys, procs[n].key, n)
  /\ UNCHANGED gone

\* socket.on('terminal-stop')
StopTerminal(socket, containerName) ==
  /\ socket \notin gone
  /\ LET terminalKey == terminalKeyOf(socket, containerName)
     IN /\ MapHas(ptys, terminalKey)
        /\ procs' = kill(procs, MapGet(ptys, terminalKey).pty)
        /\ ptys' = SelectSeq(ptys, LAMBDA e : e.id # terminalKey)
  /\ UNCHANGED gone

RECURSIVE killAll(_, _)
killAll(ps, entries) ==
  IF entries = <<>> THEN ps
  ELSE killAll(kill(ps, Head(entries).pty), Tail(entries))

\* socket.on('disconnect'): cleanupSocketTerminals
SocketDisconnect(socket) ==
  /\ socket \notin gone
  /\ gone' = gone \cup {socket}
  /\ procs' = killAll(procs, SelectSeq(ptys, LAMBDA e : keyStartsWith(e.id, socket)))
  /\ ptys' = SelectSeq(ptys, LAMBDA e : ~keyStartsWith(e.id, socket))

\* ------------------------------------------------ client connections
\* clock granularity of the connection model: one millisecond
MsgTickMs == 1
\* the targets send_message is called with
SendTargets == AgentIds \cup {"all"}

\* the clientId of a WebSocket connection accepted at time t
wsClientId(t) == "ws-client-" \o ToString(t)
\* the key of messageSubscriptions
subKeyOf(clientId, agentId) == clientId \o "-" \o agentId
messageSubject(agentId) == <<"agent", agentId, "message">>

MsgInitVars ==
  /\ conns = <<>>
  /\ servers = {}
  /\ messageSubscriptions = <<>>
  /\ busSubs = {}
  /\ nextSid = 0
  /\ toolLog = <<>>
  /\ sendLog = <<>>
  /\ outbox = <<>>

\* wsServer.on('connection')
WsConnect ==
  /\ mcp = "running"
  /\ Len(conns) < MaxConns
  /\ conns' = Append(conns, [clientId |-> wsClientId(now), open |-> TRUE])
  /\ servers' = servers \cup {wsClientId(now)}
  /\ UNCHANGED <<agents, now, messageSubscriptions, busSubs, nextSid, toolLog,
                 sendLog, outbox>>

\* ws.on('close')
WsClose(k) ==
  /\ conns[k].open
  /\ conns' = [conns EXCEPT ![k].open = FALSE]
  /\ servers' = servers \ {conns[k].clientId}
  /\ UNCHANGED <<agents, now, messageSubscriptions, busSubs, nextSid, toolLog,
                 sendLog, outbox>>

\* variant that never finds an existing subscription
alreadySubscribedNever(m, subKey) == FALSE
\* handleSubscribeToAgent: this.messageSubscriptions.has(subKey)
alreadySubscribed(m, subKey) == MapHas(m, subKey)

\* subscribe_to_agent called by the client of connection k
SubscribeToAgent(k, agentId) ==
  /\ conns[k].open
  /\ Len(toolLog) < MaxToolCalls
  /\ LET clientId == conns[k].clientId
         subKey == subKeyOf(clientId, agentId)
     IN IF alreadySubscribed(messageSubscriptions, subKey)
          THEN /\ toolLog' = Append(toolLog,
                                    [tool |-> "subscribe", clientId |-> clientId,
                                     agentId |-> agentId, answer |-> "already"])
               /\ UNCHANGED <<messageSubscriptions, busSubs, nextSid>>
          ELSE /\ nextSid' = nextSid + 1
               /\ busSubs' = busSubs \cup
                               {[sid |-> nextSid + 1,
                                 subject |-> messageSubject(agentId),
                                 clientId |-> clientId, agentId |-> agentId]}
               /\ messageSubscriptions' =
                    MapSet(messageSubscriptions, subKey,
                           [id |-> subKey, sub |-> nextSid + 1])
               /\ toolLog' = Append(toolLog,
                                    [tool |-> "subscribe", clientId |-> clientId,
                                     agentId |-> agentId, answer |-> "subscribed"])
  /\ UNCHANGED <<agents, now, conns, servers, sendLog, outbox>>

\* unsubscribe_from_agent called by the client of connection k
UnsubscribeFromAgent(k, agentId) ==
  /\ conns[k].open
  /\ Len(toolLog) < MaxToolCalls
  /\ LET clientId == conns[k].clientId
         subKey == subKeyOf(clientId, agentId)
     IN IF ~MapHas(messageSubscriptions, subKey)
          THEN /\ toolLog' = Append(toolLog,
                                    [tool |-> "unsubscribe", clientId |-> clientId,
                                     agentId |-> agentId, answer |-> "not-subscribed"])
               /\ UNCHANGED <<messageSubscriptions, busSubs>>
          ELSE /\ busSubs' = {b \in busSubs :
                                b.sid # MapGet(messageSubscriptions, subKey).sub}
               /\ messageSubscriptions' =
                    SelectSeq(messageSubscriptions, LAMBDA e : e.id # subKey)
               /\ toolLog' = Append(toolLog,
                                    [tool |-> "unsubscribe", clientId |-> clientId,
                                     agentId |-> agentId, answer |-> "unsubscribed"])
  /\ UNCHANGED <<agents, now, conns, servers, nextSid, sendLog, outbox>>

\* variant that addresses every message to the agent's own subject
sendSubjectDirect(to) == messageSubject(to)
\* handleSendMessage: the subject the envelope is published on
sendSubject(to) ==
  IF to = "all" THEN <<"agent", "broadcast">> ELSE messageSubject(to)

\* what the registry's own subscriptions (agent.announce, agent.*.status)
\* do with an envelope published on subject: the envelope has neither id
\* nor agentId nor status
deliverToRegistry(m, subject, t) ==
  IF subject = <<"agent", "announce">>
    THEN registerAgent(m, [id |-> NoValue], t)
  ELSE IF subjectMatches(StatusPattern, subject)
    THEN updateAgentStatus(m, NoValue, NoValue, t)
  ELSE m

\* send_message called by the client of connection k
SendMessage(k, to) ==
  /\ conns[k].open
  /\ Len(sendLog) < MaxSends
  /\ sendLog' = Append(sendLog, [clientId |-> conns[k].clientId, to |-> to])
  /\ outbox' = Append(outbox, [subject |-> sendSubject(to),
                               from |-> conns[k].clientId, to |-> to,
                               call |-> Len(sendLog) + 1])
  /\ agents' = deliverToRegistry(agents, sendSubject(to), now)
  /\ UNCHANGED <<now, conns, servers, messageSubscriptions, busSubs, nextSid,
                 toolLog>>

\* a millisecond passes
MsgTick ==
  /\ now + MsgTickMs <= MaxMsgTime
  /\ now' = now + MsgTickMs
  /\ UNCHANGED <<agents, conns, servers, messageSubscriptions, busSubs,
                 nextSid, toolLog, sendLog, outbox>>

\* ----------------------------------------------------- helper functions
\* a field that is absent from an object
Absent == [absent |-> TRUE]
NoFields == [f \in {} |-> Absent]
Field(name, value) ==
  IF value = Absent THEN NoFields ELSE [f \in {name} |-> value]
\* values an id or a type can have, and values of data
NameValues == {Absent, Str(""), Str("t1"), Num("7"), JsonNull}
DataValues == {Absent, JsonNull, Str(""), Str("hi")}
\* parsed JSON values isValidTask can be called with: objects with any
\* combination of the three fields, null, a string and a number
ValidatorInputs ==
  { Field("id", i) @@ Field("type", t) @@ Field("data", d) :
      i \in NameValues, t \in NameValues, d \in DataValues }
  \cup {JsonNull, Str("task"), Num("7")}

FnInitVars ==
  /\ fnTask \in ValidatorInputs
  /\ fnValid = [done |-> FALSE]
  /\ fnRetry \in 0..MaxRetryCount
  /\ fnDelay = -1
\* in the other specifications the functions are not under test
FnIdleVars ==
  /\ fnTask = JsonNull
  /\ fnValid = [done |-> FALSE]
  /\ fnRetry = 0
  /\ fnDelay = -1

\* isValidTask(obj) is called
CallIsValidTask ==
  /\ ~fnValid.done
  /\ fnValid' = [done |-> TRUE, ok |-> isValidTask(fnTask)]
  /\ UNCHANGED <<fnTask, fnRetry, fnDelay>>

\* calculateBackoffDelay(retryCount) is called with the default delays
CallCalculateBackoffDelay ==
  /\ fnDelay = -1
  /\ fnDelay' = calculateBackoffDelay(fnRetry)
  /\ UNCHANGED <<fnTask, fnValid, fnRetry>>

\* ------------------------------------------------------ specifications
FnInit ==
  RegInit /\ TaskInitVars /\ CapInitVars /\ RtInitVars /\ MonInitVars
  /\ FnInitVars /\ MsgInitVars /\ TermInitVars

FnNext ==
  \/ CallIsValidTask /\ FnFrame
  \/ CallCalculateBackoffDelay /\ FnFrame

FnSpec == FnInit /\ [][FnNext]_vars

TaskInit ==
  RegInit /\ TaskInitVars /\ CapInitVars /\ RtInitVars /\ MonInitVars
  /\ FnIdleVars /\ MsgInitVars /\ TermInitVars

TaskNext ==
  \/ \E a \in AgentIds : AgentStart(a) /\ TaskFrame
  \/ \E m \in TaskMessages : PublishTask(m) /\ TaskFrame
  \/ \E a \in AgentIds : TaskBegin(a) /\ TaskFrame
  \/ \E a \in AgentIds : TaskFinish(a) /\ TaskFrame

TaskSpec == TaskInit /\ [][TaskNext]_vars

\* the event loop runs every ready continuation: a delivered message is
\* eventually taken up and a started processTask eventually settles
FairTaskSpec ==
  /\ TaskSpec
  /\ \A a \in AgentIds : WF_vars(TaskBegin(a) /\ TaskFrame)
  /\ \A a \in AgentIds : WF_vars(TaskFinish(a) /\ TaskFrame)

CapInit ==
  RegInit /\ TaskInitVars /\ CapInitVars /\ RtInitVars /\ MonInitVars
  /\ FnIdleVars /\ MsgInitVars /\ TermInitVars

CapNext ==
  \/ ConnectToNats /\ RegFrame
  \/ ConnectFails /\ RegFrame
  \/ \E a \in AgentIds : CapSubscribe(a) /\ CapFrame
  \/ \E c \in Clients : RequestCapability(c) /\ CapFrame
  \/ \E c \in Clients : NoResponders(c) /\ CapFrame
  \/ \E a \in AgentIds : AgentReplies(a) /\ CapFrame
  \/ \E a \in AgentIds : AgentIgnores(a) /\ CapFrame
  \/ \E c \in Clients : RequestTimeout(c) /\ CapFrame
  \/ \E c \in Clients : CallDone(c) /\ CapFrame
  \/ CapTick /\ CapFrame

CapSpec == CapInit /\ [][CapNext]_vars

\* the broker next to a registry that agents announce themselves to; the
\* clock stands still, so no request times out
CapRosterNext ==
  \/ ConnectToNats /\ RegFrame
  \/ \E id \in AgentIds : Announce(id) /\ RegFrame
  \/ \E a \in AgentIds : CapSubscribe(a) /\ CapFrame
  \/ \E c \in Clients : RequestCapability(c) /\ CapFrame
  \/ \E c \in Clients : NoResponders(c) /\ CapFrame
  \/ \E a \in AgentIds : AgentReplies(a) /\ CapFrame
  \/ \E c \in Clients : CallDone(c) /\ CapFrame

CapRosterSpec == CapInit /\ [][CapRosterNext]_vars

RtInit ==
  RegInit /\ TaskInitVars /\ CapInitVars /\ RtInitVars /\ MonInitVars
  /\ FnIdleVars /\ MsgInitVars /\ TermInitVars

RtNext ==
  \/ StartMain /\ RtFrame
  \/ ConnectAttempt /\ RtFrame
  \/ ConnectGiveUp /\ RtFrame
  \/ InitializeMCPClient /\ RtFrame
  \/ SetupSubscriptions /\ RtFrame
  \/ HeartbeatTimer /\ RtFrame
  \/ TaskArrives /\ RtFrame
  \/ TaskStarts /\ RtFrame
  \/ TaskSettles /\ RtFrame
  \/ EventArrives /\ RtFrame
  \/ HandleAgentEvent /\ RtFrame
  \/ BroadcastArrives /\ RtFrame
  \/ HandleBroadcast /\ RtFrame
  \/ Signal /\ RtFrame
  \/ ShutdownHeartbeat /\ RtFrame
  \/ ShutdownExit /\ RtFrame
  \/ RtTick /\ RtFrame

RtSpec == RtInit /\ [][RtNext]_vars

\* each for-await loop and each pending continuation of the process gets
\* its turn on the event loop; nothing makes a processTask promise settle
FairRtSpec ==
  /\ RtSpec
  /\ WF_vars(StartMain /\ RtFrame)
  /\ WF_vars(InitializeMCPClient /\ RtFrame)
  /\ WF_vars(ConnectAttempt /\ RtFrame)
  /\ WF_vars(ConnectGiveUp /\ RtFrame)
  /\ WF_vars(SetupSubscriptions /\ RtFrame)
  /\ WF_vars(HandleAgentEvent /\ RtFrame)
  /\ WF_vars(HandleBroadcast /\ RtFrame)

MonInit ==
  RegInit /\ TaskInitVars /\ CapInitVars /\ RtInitVars /\ MonInitVars
  /\ FnIdleVars /\ MsgInitVars /\ TermInitVars

MonNext ==
  \/ ConnectToNats /\ RegFrame
  \/ ConnectFails /\ RegFrame
  \/ \E id \in AgentIds : Announce(id) /\ RegFrame
  \/ MonInitialize /\ MonFrame
  \/ \E socket \in Sockets : GetAgents(socket) /\ MonFrame
  \/ \E r \in 1..Len(monReqs) : MonAnswered(r) /\ MonFrame
  \/ \E r \in 1..Len(monReqs) : MonNoResponders(r) /\ MonFrame
  \/ \E r \in 1..Len(monReqs) : MonTimeout(r) /\ MonFrame
  \/ MonTick /\ MonFrame

MonSpec == MonInit /\ [][MonNext]_vars

MsgInit ==
  RegInit /\ TaskInitVars /\ CapInitVars /\ RtInitVars /\ MonInitVars
  /\ FnIdleVars /\ MsgInitVars /\ TermInitVars

\* connections and their message subscriptions
MsgNext ==
  \/ ConnectToNats /\ RegFrame
  \/ WsConnect /\ MsgFrame
  \/ \E k \in 1..Len(conns) : WsClose(k) /\ MsgFrame
  \/ \E k \in 1..Len(conns), agentId \in AgentIds :
       SubscribeToAgent(k, agentId) /\ MsgFrame
  \/ \E k \in 1..Len(conns), agentId \in AgentIds :
       UnsubscribeFromAgent(k, agentId) /\ MsgFrame
  \/ MsgTick /\ MsgFrame

MsgSpec == MsgInit /\ [][MsgNext]_vars

\* connections sending messages, next to a registry with announced agents
SendNext ==
  \/ ConnectToNats /\ RegFrame
  \/ \E id \in AgentIds : Announce(id) /\ RegFrame
  \/ WsConnect /\ MsgFrame
  \/ \E k \in 1..Len(conns) : WsClose(k) /\ MsgFrame
  \/ \E k \in 1..Len(conns), to \in SendTargets : SendMessage(k, to) /\ MsgFrame
  \/ MsgTick /\ MsgFrame

SendSpec == MsgInit /\ [][SendNext]_vars

TermInit ==
  RegInit /\ TaskInitVars /\ CapInitVars /\ RtInitVars /\ MonInitVars
  /\ FnIdleVars /\ MsgInitVars /\ TermInitVars

TermNext ==
  \/ \E socket \in Sockets, c \in Containers : CreateTerminal(socket, c) /\ TermFrame
  \/ \E n \in 1..Len(procs) : PtyExit(n) /\ TermFrame
  \/ \E socket \in Sockets, c \in Containers : StopTerminal(socket, c) /\ TermFrame
  \/ \E socket \in Sockets : SocketDisconnect(socket) /\ TermFrame

TermSpec == TermInit /\ [][TermNext]_vars

Init ==
  RegInit /\ TaskInitVars /\ CapInitVars /\ RtInitVars /\ MonInitVars
  /\ FnIdleVars /\ MsgInitVars /\ TermInitVars

Next ==
  \/ ConnectToNats /\ RegFrame
  \/ ConnectFails /\ RegFrame
  \/ \E id \in AgentIds : Announce(id) /\ RegFrame
  \/ \E id \in AgentIds : StatusMsg(id) /\ RegFrame
  \/ \E id \in AgentIds : HeartbeatMsg(id) /\ RegFrame
  \/ Sweep /\ RegFrame
  \/ Tick /\ RegFrame
  \/ ListAgents /\ RegFrame
  \/ \E id \in AgentIds : HandleGetAgentInfo(id) /\ RegFrame
  \/ \E id \in AgentIds : NatsGetAgentInfo(id) /\ RegFrame

Spec == Init /\ [][Next]_vars

\* ------------------------------------------------------- registry claims
IdsUnique(m) == \A i, j \in 1..Len(m) : m[i].id = m[j].id => i = j
IsReannounce == lastOp'.kind = "announce" /\ MapHas(agents, lastOp'.id)
BecameOffline(id) ==
  /\ StatusOf(agents', id) = "offline"
  /\ StatusOf(agents, id) # "offline"

\* C1: the roster never holds two records with the same agent id, and an
\* announce for an id already in the roster replaces that id's record in
\* place (fresh lastSeen, status online) and leaves the length of
\* list("all") unchanged.
C1_OneRecordPerId ==
  [][ /\ IdsUnique(agents')
      /\ IsReannounce =>
           /\ Len(listAgents(agents', "all")) = Len(listAgents(agents, "all"))
           /\ MapGet(agents', lastOp'.id).lastSeen = now
           /\ MapGet(agents', lastOp'.id).status = "online" ]_vars

\* the first-inserted of two agents has just announced again
C1_Witness ==
  /\ lastOp.kind = "announce"
  /\ Len(agents) = 2
  /\ agents[1].id = lastOp.id
  /\ agents[1].lastSeen > agents[2].lastSeen

GetAnswered == lastOp.kind = "get" /\ lastReply.kind = "info"
Silent(id) == heard[id] # NoHeard /\ now - heard[id].at > StalenessTimeout
SweptSince(id) ==
  heard[id] # NoHeard /\ lastSweepAt - heard[id].at > StalenessTimeout

C4_OnlySweepSetsOffline ==
  [][ \A id \in AgentIds : BecameOffline(id) => lastOp'.kind = "sweep" ]_vars

\* C4 amended: a record's status becomes offline only in a sweep or when
\* a status message whose payload status is offline is handled for that
\* agent; no announce and no list or get request sets it.
C4_SweepOrOfflinePayload ==
  [][ \A id \in AgentIds :
        BecameOffline(id) =>
          \/ lastOp'.kind = "sweep"
          \/ /\ lastOp'.kind = "status"
             /\ lastOp'.id = id
             /\ lastOp'.arg = "offline" ]_vars

\* the sweep has just marked offline an agent whose last message left it
\* online
C4_Witness ==
  /\ lastOp.kind = "sweep"
  /\ \E id \in AgentIds :
       /\ heard[id].status = "online"
       /\ StatusOf(agents, id) = "offline"
       /\ MapGet(agents, id).lastSeen = now

\* C13 as stated: every heartbeat an agent runtime publishes is received
\* by the registry and refreshes that agent's record: right after a
\* heartbeat of a registered agent its lastSeen is the current time.
C13_HeartbeatRefreshes ==
  (lastOp.kind = "heartbeat" /\ MapHas(agents, lastOp.id)) =>
    MapGet(agents, lastOp.id).lastSeen = now

InReply(id) == \E i \in 1..Len(lastReply.list) : lastReply.list[i].id = id
\* what a list answer must say about an agent that is due to be offline
\* (due) or not
ListedAs(id, due) ==
  IF due
    THEN /\ lastOp.arg = "offline" => InReply(id)
         /\ lastOp.arg = "online" => ~InReply(id)
    ELSE lastOp.arg = "online" => InReply(id)

\* C14 as stated: after an agent has announced, list("online") contains
\* it; once its last message is one staleness threshold old, it is in
\* list("offline") and not in list("online").
C14_OfflineFromThreshold ==
  lastOp.kind = "list" =>
    \A id \in AgentIds :
      heard[id].status = "online" =>
        ListedAs(id, now - heard[id].at >= StalenessTimeout)

\* C14 amended: after an agent has announced, list("online") contains it
\* until the first sweep that runs more than one staleness threshold after
\* its last message; from that sweep on it is in list("offline") and not
\* in list("online").
C14_OfflineFromSweep ==
  lastOp.kind = "list" =>
    \A id \in AgentIds :
      heard[id].status = "online" => ListedAs(id, SweptSince(id))

\* list("offline") names an agent that announced, fell silent and was swept
C14_Witness ==
  /\ lastOp.kind = "list"
  /\ lastOp.arg = "offline"
  /\ \E id \in AgentIds :
       /\ heard[id].status = "online"
       /\ SweptSince(id)
       /\ InReply(id)

\* C15: an id that is in the roster stays in the roster, whatever the
\* registry handles next (announce, status message, heartbeat, sweep,
\* list, get): the set of ids in list("all") only grows.
C15_NeverRemoved ==
  [][ \A id \in AgentIds : MapHas(agents, id) => MapHas(agents', id) ]_vars

\* both agents are still in the roster after one was reported offline and
\* the other was marked offline by a sweep
C15_Witness ==
  /\ Len(listAgents(agents, "offline")) = 2
  /\ lastSweepAt >= 0
  /\ \E id \in AgentIds : heard[id].status = "offline"

\* C16 as stated: a get(id) request on the bus is answered with null
\* exactly when id is not in the roster, and with the agent's current
\* record otherwise.
C16_GetNullIffUnknown ==
  (lastOp.kind = "get" /\ lastOp.arg = "nats") =>
    lastReply = IF MapHas(agents, lastOp.id)
                  THEN [kind |-> "info"] @@ agentInfo(MapGet(agents, lastOp.id))
                  ELSE NullReply

\* C20 as stated: the MCP server never exits because it could not connect
\* to the bus.
C20_ConnectFailureNotFatal == mcp # "exited"

\* C24 as stated: every record's status is online or offline, so that
\* list("online") and list("offline") share no agent and together hold
\* exactly the agents of list("all").
C24_StatusOnlineOrOffline ==
  /\ \A i \in 1..Len(agents) : agents[i].status \in {"online", "offline"}
  /\ Len(listAgents(agents, "online")) + Len(listAgents(agents, "offline"))
       = Len(listAgents(agents, "all"))

\* C25 as stated: every request on mcp.get_agent_info receives a reply,
\* whatever requests preceded it.
C25_GetAlwaysAnswered ==
  (lastOp.kind = "get" /\ lastOp.arg = "nats") => lastReply # NoReply

\* C26: a sweep changes a record only if more than the staleness threshold
\* has passed since its lastSeen and its status is online, and then it
\* turns the status offline; a record last seen at most one threshold ago
\* is left as it is.
C26_SweepOnlyStale ==
  [][ lastOp'.kind = "sweep" =>
        /\ Len(agents') = Len(agents)
        /\ \A i \in 1..Len(agents) :
             IF now - agents[i].lastSeen > StalenessTimeout
                  /\ agents[i].status = "online"
               THEN agents'[i].status = "offline"
               ELSE agents'[i] = agents[i] ]_vars

\* a sweep has just run over an agent last seen exactly one threshold ago
\* and has left it online
C26_Witness ==
  /\ lastOp.kind = "sweep"
  /\ \E i \in 1..Len(agents) :
       /\ agents[i].status = "online"
       /\ now - agents[i].lastSeen = StalenessTimeout

\* C27 as stated: a sweep leaves every lastSeen as it is, so a record's
\* lastSeen is always the time of the last announce or status message the
\* registry handled for that agent.
C27_SweepKeepsLastSeen ==
  \A id \in AgentIds :
    MapHas(agents, id) => MapGet(agents, id).lastSeen = heard[id].at

\* --------------------------------------------------------- task claims
MsgOf(no) == published[no].msg
\* indices in results of the results agent a published for message no
ResultsOf(a, no) ==
  {k \in 1..Len(results) : results[k].agentId = a /\ results[k].re = no}
ResultsFor(no) == {k \in 1..Len(results) : results[k].re = no}
Finished(a, i) == i <= pos[a]

\* C5: for every well-formed task delivered to an agent, the agent has
\* published no TaskResult for it before its handler finishes and exactly
\* one afterwards, and that result's status is completed or failed.
C5_OneResultPerTask ==
  \A a \in AgentIds : \A i \in 1..Len(inbox[a]) :
    MsgOf(inbox[a][i]) \in WellFormedTasks =>
      /\ Cardinality(ResultsOf(a, inbox[a][i])) =
           (IF Finished(a, i) THEN 1 ELSE 0)
      /\ \A k \in ResultsOf(a, inbox[a][i]) :
           results[k].status \in {"completed", "failed"}

\* one well-formed task has been answered with completed and one with
\* failed
C5_Witness ==
  \E k1, k2 \in 1..Len(results) :
    /\ MsgOf(results[k1].re) \in WellFormedTasks
    /\ results[k1].status = "completed"
    /\ MsgOf(results[k2].re) \in WellFormedTasks
    /\ results[k2].status = "failed"

\* C6: once every agent that was subscribed when a well-formed task was
\* published has finished it, task.result holds exactly one result per
\* such agent for it, all with the task's id and pairwise distinct
\* agentId.
C6_FanOutResults ==
  \A no \in 1..Len(published) :
    (/\ MsgOf(no) \in WellFormedTasks
     /\ \A a \in published[no].to :
          \E i \in 1..Len(inbox[a]) : inbox[a][i] = no /\ Finished(a, i))
    => /\ Cardinality(ResultsFor(no)) = Cardinality(published[no].to)
       /\ \A k \in ResultsFor(no) : results[k].taskId = MsgOf(no).id.v
       /\ \A k1, k2 \in ResultsFor(no) :
            results[k1].agentId = results[k2].agentId => k1 = k2

C8_ErrorBecomesFailedResult ==
  /\ [](\A a \in AgentIds : \A no \in raised[a] :
          /\ Cardinality(ResultsOf(a, no)) = 1
          /\ \A k \in ResultsOf(a, no) :
               results[k].status = "failed" /\ results[k].error # NoValue
          /\ running[a]
          /\ pc[a] \in {"idle", "processing"})
  /\ \A a \in AgentIds :
       (raised[a] # {}) ~> (pc[a] = "idle" /\ pos[a] = Len(inbox[a]))

\* an agent has answered a task after one whose execution raised
C8_Witness ==
  \E a \in AgentIds :
    /\ pos[a] = 2
    /\ inbox[a][1] \in raised[a]
    /\ inbox[a][2] \notin raised[a]
    /\ MsgOf(inbox[a][2]) \in WellFormedTasks
    /\ \E k \in ResultsOf(a, inbox[a][2]) : results[k].status = "completed"

\* C9: every TaskResult published for a task with id T carries taskId T.
C9_ResultCarriesTaskId ==
  \A k \in 1..Len(results) :
    MsgOf(results[k].re) \in WellFormedTasks =>
      results[k].taskId = MsgOf(results[k].re).id.v

\* the numbers of the messages agent a has published a result for, in the
\* order of publication
RECURSIVE AnsweredBy(_, _)
AnsweredBy(a, rs) ==
  IF rs = <<>> THEN <<>>
  ELSE IF Head(rs).agentId = a
    THEN <<Head(rs).re>> \o AnsweredBy(a, Tail(rs))
    ELSE AnsweredBy(a, Tail(rs))

\* C29: an agent executes one task at a time, in delivery order: the
\* results it has published answer exactly the first pos[a] messages of
\* its subscription, in that order, so when it is processing message
\* pos[a] + 1 every earlier message has its result and no later one has.
C29_OneTaskAtATimeInOrder ==
  \A a \in AgentIds :
    /\ pos[a] <= Len(inbox[a])
    /\ pc[a] = "processing" => pos[a] < Len(inbox[a])
    /\ AnsweredBy(a, results) = SubSeq(inbox[a], 1, pos[a])

\* an agent is processing its second message, the first one's result is
\* published, and the second one has none yet
C29_Witness ==
  \E a \in AgentIds :
    /\ pc[a] = "processing"
    /\ pos[a] = 1
    /\ Len(inbox[a]) = 2
    /\ AnsweredBy(a, results) = <<inbox[a][1]>>

NoReplySettled(c) ==
  calls[c].pc \in {"returned", "thrown"} /\ calls[c].settled = "error"

\* C10: a capability request that gets no reply within its timeout, with
\* or without subscribers, makes handleRequestCapability return the
\* "No agent available" result, not raise, no later than the timeout; and
\* no call waits beyond its timeout.
C10_NoReplySoftResult ==
  \A c \in Clients :
    /\ NoReplySettled(c) =>
         /\ calls[c].pc = "returned"
         /\ calls[c].out.kind = "content"
         /\ calls[c].doneAt - calls[c].sentAt <= calls[c].timeout
    /\ calls[c].pc = "waiting" => now - calls[c].sentAt <= calls[c].timeout

\* C11: a call that has its answer is not changed by anything that arrives
\* later (a late reply is dropped); it only ends when the client takes the
\* answer.  A waiting call that is settled by a reply returns the data of
\* the agent whose reply arrived, the first one.
C11_FirstReplyWins ==
  [][ \A c \in Clients :
        /\ calls[c].pc \in {"returned", "thrown"} =>
             \/ calls'[c] = IdleCall
             \/ [calls'[c] EXCEPT !.late = calls[c].late] = calls[c]
        /\ (calls[c].pc = "waiting" /\ calls'[c].pc = "returned"
              /\ calls'[c].settled = "reply") =>
             \E a \in calls[c].responders :
               /\ capInbox[a] # <<>>
               /\ Head(capInbox[a]).no = calls[c].no
               /\ capInbox'[a] = Tail(capInbox[a])
               /\ calls'[c].out = [kind |-> "content", text |-> a] ]_vars

\* two agents replied to one request: the first reply was returned and the
\* second one was dropped
C11_Witness ==
  \E c \in Clients :
    /\ calls[c].pc = "returned"
    /\ calls[c].settled = "reply"
    /\ calls[c].late = 1
    /\ calls[c].responders = AgentIds
    /\ calls[c].out.text \in AgentIds

\* C23 as stated: two capability requests that are in progress at the
\* same time carry different requestIds.
C23_RequestIdsDistinct ==
  \A c1, c2 \in Clients :
    (c1 # c2 /\ calls[c1].pc # "idle" /\ calls[c2].pc # "idle") =>
      calls[c1].requestId # calls[c2].requestId

\* C34: every request_capability call is published on capability.request
\* (it reaches every agent subscribed to that subject) whatever the
\* registry holds - an empty roster, or no agent advertising the
\* capability - and no step of handling a call changes the roster.
C34_PublishedWhateverTheRoster ==
  [][ /\ \A c \in Clients :
           (calls[c].pc = "idle" /\ calls'[c].pc # "idle") =>
             /\ calls'[c].pc = "waiting"
             /\ \A a \in capSubs :
                  capInbox'[a] =
                    Append(capInbox[a],
                           [no |-> calls'[c].no, client |-> c,
                            capability |-> calls'[c].capability])
      /\ calls' # calls => agents' = agents ]_vars
\* C34 witness: one call was published while the roster was empty and
\* another while the roster held agents of which none advertises the
\* requested capability; each reached a subscribed agent
C34_Witness ==
  \E c1, c2 \in Clients :
    /\ calls[c1].pc # "idle" /\ calls[c1].roster = <<>>
    /\ calls[c1].responders # {}
    /\ calls[c2].pc # "idle" /\ calls[c2].roster # <<>>
    /\ ~Advertised(calls[c2].roster, calls[c2].capability)
    /\ calls[c2].responders # {}
    /\ agents = calls[c2].roster

\* ------------------------------------------------ agent runtime claims
GracefulSteps == <<"stopping-heartbeat", "clear-timer", "drain", "exit">>

\* C12 as stated: whichever way a running agent terminates (restart event,
\* shutdown broadcast, signal), it has published a final heartbeat with
\* status stopping, then stopped the heartbeat timer, then drained the
\* connection, and exited last.
C12_GracefulOnEveryPath ==
  (phase = "terminated" /\ exited.cause \in {"restart", "shutdown", "signal"}) =>
    /\ steps = GracefulSteps
    /\ beats # <<>>
    /\ beats[Len(beats)].status = "stopping"
    /\ hbNext = -1

AliveBeats == SelectSeq(beats, LAMBDA b : b.status = "alive")

\* C17: the i-th heartbeat of the timer is published i intervals after the
\* timer was started (the model starts it at time 0), so successive
\* heartbeats are exactly one interval apart, and while the agent runs and
\* has not stopped the timer, the next heartbeat is scheduled one interval
\* after the last and is never overdue - whether or not a task is queued
\* or in progress.
C17_HeartbeatEveryInterval ==
  /\ \A i \in 1..Len(AliveBeats) : AliveBeats[i].at = i * heartbeatInterval
  /\ phase \in {"running", "stopping"} =>
       /\ hbNext = (Len(AliveBeats) + 1) * heartbeatInterval
       /\ now <= hbNext

\* two successive heartbeats were published while a task handler was in
\* progress and another task was waiting
C17_Witness ==
  /\ Len(beats) >= 2
  /\ beats[1].busy /\ beats[2].busy
  /\ beats[2].status = "alive"
  /\ beats[2].at - beats[1].at = heartbeatInterval
  /\ handling
  /\ queued = MaxQueued

\* C18: an event or broadcast message that is in the agent's subscription
\* while a task handler is in progress is eventually handled (unless the
\* process terminates first), with no assumption that the task handler
\* ever completes.
C18_LoopsNotStarved ==
  \A k \in 1..MaxEvents :
    /\ (handling /\ Len(events) >= k) ~> (evPos >= k \/ phase = "terminated")
    /\ (handling /\ Len(bcasts) >= k) ~> (bcPos >= k \/ phase = "terminated")

\* every delivered event and broadcast has been handled and the agent is
\* inside a task handler with another task waiting
C18_Witness ==
  /\ phase = "running"
  /\ handling
  /\ queued = MaxQueued
  /\ Len(events) = MaxEvents /\ evPos = MaxEvents
  /\ Len(bcasts) = MaxEvents /\ bcPos = MaxEvents

\* C19: connectToNATS makes at most maxRetries attempts, all before the
\* first success and none after it; the loop is always left; and when
\* every attempt has failed the process exits with code 1 and never
\* reaches the running phases.
C19_ConnectLoopTerminates ==
  /\ [](/\ attempts <= maxRetries
        /\ phase = "connecting" => attempts = retries
        /\ phase = "setup" => attempts = retries + 1
        /\ retries = maxRetries => phase \in {"connecting", "terminated"}
        /\ exited.cause = "connect" =>
             /\ phase = "terminated"
             /\ exited.code = 1
             /\ retries = maxRetries)
  /\ [][phase # "connecting" => attempts' <= attempts]_vars
  /\ (phase = "connecting") ~> (phase # "connecting")

\* all maxRetries attempts failed and the process has exited with code 1
C19_Witness ==
  /\ phase = "terminated"
  /\ exited = [code |-> 1, cause |-> "connect"]
  /\ attempts = maxRetries
  /\ Len(waits) = maxRetries - 1

\* the place of a phase in starting, connecting, announced, running,
\* stopping, terminated (an agent that is connected but not announced is
\* still in connecting)
PhaseRank(p) ==
  CASE p = "starting" -> 0
    [] p \in {"connecting", "setup", "unannounced"} -> 1
    [] p = "announced" -> 2
    [] p = "running" -> 3
    [] p \in {"stopping", "draining"} -> 4
    [] p = "terminated" -> 5

\* C22 as stated: every step of the agent keeps its state or moves it to
\* the next one of starting, connecting, announced, running, stopping,
\* terminated (an agent that cannot start or connect terminates from
\* where it is); in particular running is entered from announced only.
C22_PhasesInOrder ==
  [][ \/ PhaseRank(phase') = PhaseRank(phase)
      \/ PhaseRank(phase') = PhaseRank(phase) + 1
      \/ phase' = "terminated" /\ PhaseRank(phase) <= 1 ]_vars

EmissionsFor(r) == {k \in 1..Len(emitted) : emitted[k].req = r}

\* C21 as stated: every get-agents event the monitor has received and is
\* not still waiting on has exactly one agents-list emission, made to the
\* requesting socket: the registry's list if the request was answered,
\* the empty list otherwise.
C21_OneAgentsListPerRequest ==
  \A r \in 1..Len(monReqs) :
    monReqs[r].pc # "waiting" =>
      /\ Cardinality(EmissionsFor(r)) = 1
      /\ \A k \in EmissionsFor(r) :
           /\ emitted[k].socket = monReqs[r].socket
           /\ monReqs[r].pc # "reply" => emitted[k].agents = <<>>

\* ----------------------------------------------- helper function claims
\* what the claim calls an acceptable task: an object whose id and type
\* are non-empty strings and whose data is present
NonEmptyString(x) == x # Absent /\ "typeof" \in DOMAIN x
                     /\ x.typeof = "string" /\ x.v # ""
FieldOf(x, name) == IF name \in DOMAIN x THEN x[name] ELSE Absent
IsObject(x) == x # JsonNull /\ "typeof" \notin DOMAIN x
AcceptableTask(x) ==
  /\ IsObject(x)
  /\ NonEmptyString(FieldOf(x, "id"))
  /\ NonEmptyString(FieldOf(x, "type"))
  /\ FieldOf(x, "data") # Absent

\* C31 as stated: isValidTask accepts a message exactly when it is an
\* object whose id is a non-empty string, whose type is a non-empty string
\* and whose data is present; every other message is rejected.
C31_AcceptsExactlyNonEmpty ==
  fnValid.done => (fnValid.ok <=> AcceptableTask(fnTask))

RECURSIVE TwoToThe(_)
TwoToThe(n) == IF n = 0 THEN 1 ELSE 2 * TwoToThe(n - 1)
Smaller(x, y) == IF x <= y THEN x ELSE y

\* C32: calculateBackoffDelay(attempt) is min(1000 * 2^attempt, 30000) for
\* every attempt >= 0; over the attempts it never decreases, it doubles
\* from one attempt to the next as long as the double does not pass the
\* cap, and it never exceeds the cap.
C32_BackoffIsCappedDoubling ==
  /\ fnDelay # -1 =>
       /\ fnDelay = Smaller(1000 * TwoToThe(fnRetry), 30000)
       /\ fnDelay <= 30000
       /\ fnRetry > 0 =>
            LET before == calculateBackoffDelay(fnRetry - 1)
            IN /\ before <= fnDelay
               /\ fnDelay = Smaller(2 * before, 30000)
       /\ fnRetry = 0 => fnDelay = 1000
\* C32 witness: the function was applied to an attempt past the point
\* where the doubling reaches the cap
C32_Witness ==
  fnRetry = 5 /\ fnDelay = 30000 /\ calculateBackoffDelay(4) = 16000

\* C33 as stated: the waits between consecutive failed connection attempts
\* are the backoff sequence from its start - base delay after the first
\* failure, then doubling up to the cap - and no wait follows the last
\* permitted attempt.
C33_WaitsFollowBackoff ==
  phase = "connecting" =>
    /\ \A i \in 1..Len(waits) :
         waits[i] = Smaller(baseDelay * TwoToThe(i - 1), maxDelay)
    /\ Len(waits) = Smaller(retries, maxRetries - 1)

\* ------------------------------------------------- client message claims
ClientIds == {conns[k].clientId : k \in 1..Len(conns)}
\* the calls of one client about one agent, in order
CallsAbout(clientId, agentId) ==
  SelectSeq(toolLog, LAMBDA e : e.clientId = clientId /\ e.agentId = agentId)
\* the client has subscribed to the agent and not unsubscribed since
WantsMessages(clientId, agentId) ==
  LET c == CallsAbout(clientId, agentId)
  IN c # <<>> /\ c[Len(c)].tool = "subscribe"
OpenSubs(clientId, agentId) ==
  {b \in busSubs : b.clientId = clientId /\ b.agentId = agentId}

C36_NoSubscriptionOfClosedClient ==
  \A k \in 1..Len(conns) :
    (/\ ~conns[k].open
     /\ \A j \in 1..Len(conns) :
          conns[j].open => conns[j].clientId # conns[k].clientId) =>
      /\ \A b \in busSubs : b.clientId # conns[k].clientId
      /\ \A agentId \in AgentIds :
           ~MapHas(messageSubscriptions, subKeyOf(conns[k].clientId, agentId))

\* C37: every send_message call publishes exactly one envelope - on
\* agent.broadcast when to is "all", otherwise on agent.<to>.message -
\* whose from is the clientId of the calling connection; the envelope
\* matches neither of the registry's subscriptions and the roster is
\* unchanged.
C37_OneEnvelopePerSend ==
  [][ sendLog' # sendLog =>
        /\ Len(outbox') = Len(outbox) + 1
        /\ SubSeq(outbox', 1, Len(outbox)) = outbox
        /\ LET call == sendLog'[Len(sendLog')]
               env == outbox'[Len(outbox')]
           IN /\ env.from = call.clientId
              /\ env.to = call.to
              /\ call.to = "all" => env.subject = <<"agent", "broadcast">>
              /\ call.to # "all" => env.subject = <<"agent", call.to, "message">>
              /\ ~subjectMatches(StatusPattern, env.subject)
              /\ env.subject # <<"agent", "announce">>
        /\ agents' = agents ]_vars
\* C37 witness: with agents registered, one client has broadcast a message
\* and another has sent one to a single agent
C37_Witness ==
  /\ Len(agents) = 2
  /\ Len(outbox) = 2
  /\ outbox[1].to = "all" /\ outbox[2].to = "agent-1"
  /\ outbox[1].from # outbox[2].from

\* ------------------------------------------------------ terminal claims
\* C38 as stated: while a PTY created for a key is alive (not killed, not
\* exited), the ptys entry of that key refers to it - so a PTY replaced by
\* re-creation has been killed, and the exit callback of a replaced PTY
\* leaves the entry of its successor in place.
C38_AliveTerminalHasItsEntry ==
  \A n \in 1..Len(procs) :
    procs[n].state = "alive" =>
      /\ MapHas(ptys, procs[n].key)
      /\ MapGet(ptys, procs[n].key).pty = n

====
